---------------------------- MODULE Spec2Model ----------------------------
(***************************************************************************)
(* A model of alysis' PyEVMBackend (src/alysis/backend.py) and of the RPC  *)
(* dispatcher built on it (src/alysis/_rpc.py).                            *)
(*                                                                         *)
(* The chain engine (py-evm's MiningChain) is represented by what the      *)
(* backend reads from it and writes to it:                                 *)
(*   db             every block ever persisted, found by its hash          *)
(*   canonical      the engine's number -> hash index of the canonical     *)
(*                  chain                                                  *)
(*   canonical_head the hash of the last imported/mined block              *)
(*   pending        the transactions applied to the head block, which is   *)
(*                  the block under construction (chain.get_block())       *)
(*   nextHash       the supply of fresh block hashes (mine_block draws a   *)
(*                  random mix_hash, so every mined block has a new hash)  *)
(*   response       what the operation in progress returns or raises to    *)
(*                  its caller; Idle between operations (every operation   *)
(*                  is synchronous: the next starts after it has returned) *)
(***************************************************************************)
EXTENDS Integers, Sequences, FiniteSets, TLC

VARIABLES db, canonical, canonical_head, pending, nextHash, response

vars == <<db, canonical, canonical_head, pending, nextHash, response>>

chainVars == <<db, canonical, canonical_head, pending, nextHash>>

(***************************************************************************)
(* Bounds of the model.                                                    *)
(***************************************************************************)
\* blocks mined after genesis
MaxBlocks == 2

\* transactions applied to one head block
MaxPending == 2

\* the transactions of the block whose projections are checked one by one
MaxReceipts == 3

(***************************************************************************)
(* Optional values: Python's None is the empty sequence, a present value x *)
(* is <<x>>.  JSON null is None.                                           *)
(***************************************************************************)
None == <<>>

Some(x) == <<x>>

(***************************************************************************)
(* Hashes.  The genesis block has hash 1, mined blocks draw 2, 3, ...      *)
(* The header of the block under construction is never persisted; its      *)
(* hash is a value outside the persisted ones (here: minus its number).    *)
(***************************************************************************)
GENESIS_PARENT_HASH == 0

GenesisHash == 1

BlockHashes == (0 - (MaxBlocks + 2)) .. (MaxBlocks + 2)

(***************************************************************************)
(* Header constants.  Byte strings are sequences of 0..255.                *)
(***************************************************************************)
ZERO_ADDRESS == [i \in 1 .. 20 |-> 0]

POST_MERGE_DIFFICULTY == 0

POST_MERGE_NONCE == [i \in 1 .. 8 |-> 0]

\* the base fee of the genesis header, in wei
INITIAL_BASE_FEE == 1000000000

(***************************************************************************)
(* Signed transactions, as far as the backend reads them.  A legacy        *)
(* transaction is not a TypedTransaction; an access-list transaction is    *)
(* one and has a gas_price; a dynamic-fee transaction is one and reading   *)
(* its gas_price raises AttributeError (gas_price is None here).  The two  *)
(* older kinds answer max_fee_per_gas and max_priority_fee_per_gas with    *)
(* their gas_price.  type_id is the number on the envelope.                *)
(* execution_gas is the gas the engine spends on executing the             *)
(* transaction.                                                            *)
(***************************************************************************)
LegacyTransaction(hash, gas_price, execution_gas) ==
    [hash |-> hash, typed |-> FALSE, type_id |-> 0,
     gas_price |-> Some(gas_price),
     max_fee_per_gas |-> gas_price, max_priority_fee_per_gas |-> gas_price,
     execution_gas |-> execution_gas]

AccessListTransaction(hash, gas_price, execution_gas) ==
    [hash |-> hash, typed |-> TRUE, type_id |-> 1,
     gas_price |-> Some(gas_price),
     max_fee_per_gas |-> gas_price, max_priority_fee_per_gas |-> gas_price,
     execution_gas |-> execution_gas]

DynamicFeeTransaction(hash, max_fee_per_gas, max_priority_fee_per_gas, execution_gas) ==
    [hash |-> hash, typed |-> TRUE, type_id |-> 2,
     gas_price |-> None,
     max_fee_per_gas |-> max_fee_per_gas,
     max_priority_fee_per_gas |-> max_priority_fee_per_gas,
     execution_gas |-> execution_gas]

\* the transactions that clients send
Transactions ==
    {DynamicFeeTransaction(1, 2000000000, 1000000000, 21000),
     LegacyTransaction(2, 1500000000, 42000)}

TransactionHashes == {1, 2, 3}

GenesisBlock ==
    [number |-> 0, hash |-> GenesisHash, parent_hash |-> GENESIS_PARENT_HASH,
     nonce |-> POST_MERGE_NONCE, bloom |-> 0, coinbase |-> ZERO_ADDRESS,
     difficulty |-> POST_MERGE_DIFFICULTY, base_fee_per_gas |-> INITIAL_BASE_FEE,
     transactions |-> <<>>]

(***************************************************************************)
(* The engine's read interface.                                            *)
(***************************************************************************)
\* chain.get_block_by_hash: the persisted block with that hash, if any
HasBlock(h) == \E b \in db : b.hash = h

BlockByHash(h) == CHOOSE b \in db : b.hash = h

\* chain.get_canonical_block_by_number
get_canonical_block_by_number(n) == BlockByHash(canonical[n])

\* the base fee the engine gives the child of a header (EIP-1559).  The
\* blocks of the model use a negligible share of the gas target, for which
\* the fee falls by one eighth per block.
create_header_from_parent_base_fee(parent_header) ==
    parent_header.base_fee_per_gas - (parent_header.base_fee_per_gas \div 8)

\* chain.get_block(): the head block, i.e. the block under construction
get_block ==
    LET parent == BlockByHash(canonical_head)
    IN  [number |-> parent.number + 1, hash |-> 0 - (parent.number + 1),
         parent_hash |-> parent.hash,
         nonce |-> POST_MERGE_NONCE, bloom |-> 0, coinbase |-> ZERO_ADDRESS,
         difficulty |-> POST_MERGE_DIFFICULTY,
         base_fee_per_gas |-> create_header_from_parent_base_fee(parent),
         transactions |-> pending]

\* block.get_receipts(chaindb): one receipt per transaction; a receipt's
\* gas_used is the gas used in the block up to and including its transaction
RECURSIVE CumulativeGas(_, _)
CumulativeGas(transactions, n) ==
    IF n = 0 THEN 0
    ELSE CumulativeGas(transactions, n - 1) + transactions[n].execution_gas

get_receipts(block) ==
    [i \in 1 .. Len(block.transactions) |->
        [gas_used |-> CumulativeGas(block.transactions, i)]]


(***************************************************************************)
(* What an operation does: it returns a value or raises an exception.      *)
(*   kind      "return" or "raise"                                         *)
(*   value     the returned value (None is Python's None / JSON null)      *)
(*   exc       the class of the raised exception                           *)
(*   args      exc.args[0] of a raised backend exception                   *)
(*   code, message, data   the fields of a raised RPCError                 *)
(*   executed  whether a backend operation was started                     *)
(***************************************************************************)
Return(v) ==
    [kind |-> "return", value |-> v, exc |-> "", args |-> None,
     code |-> None, message |-> "", data |-> None, executed |-> TRUE]

Raise(exc, args0) ==
    [kind |-> "raise", value |-> None, exc |-> exc, args |-> Some(args0),
     code |-> None, message |-> "", data |-> None, executed |-> TRUE]

Returned(o) == o.kind = "return"

\* no operation in progress
Idle == [op |-> "", params |-> <<>>, inner |-> Return(None), outcome |-> Return(None)]

Max(a, b) == IF a >= b THEN a ELSE b

(***************************************************************************)
(* Block references (schema.Block): a BlockLabel or an int.                *)
(***************************************************************************)
BlockLabels == {"latest", "earliest", "pending", "safe", "finalized"}

Label(l) == [is_int |-> FALSE, label |-> l, number |-> 0]

Number(n) == [is_int |-> TRUE, label |-> "", number |-> n]

BlockNumbers == 0 .. (MaxBlocks + 1)

(***************************************************************************)
(* PyEVMBackend: the resolver.                                             *)
(***************************************************************************)
\* variant: an explicit number equal to the head's resolves to the head block
_get_block_by_number_head_inclusive(block) ==
    IF ~block.is_int /\ block.label \in {"latest", "safe", "finalized"}
    THEN Return(Some(get_canonical_block_by_number(Max(0, get_block.number - 1))))
    ELSE IF ~block.is_int /\ block.label = "earliest"
    THEN Return(Some(get_canonical_block_by_number(0)))
    ELSE IF ~block.is_int /\ block.label = "pending"
    THEN Return(Some(get_block))
    ELSE IF block.is_int /\ block.number < get_block.number
    THEN Return(Some(get_canonical_block_by_number(block.number)))
    ELSE IF block.is_int /\ block.number = get_block.number
    THEN Return(Some(get_block))
    ELSE Raise("BlockNotFound", "No block found for block number")

\* variant: latest, safe and finalized resolve to the engine's head block
_get_block_by_number_latest_is_head(block) ==
    IF ~block.is_int /\ block.label \in {"latest", "safe", "finalized", "pending"}
    THEN Return(Some(get_block))
    ELSE IF ~block.is_int /\ block.label = "earliest"
    THEN Return(Some(get_canonical_block_by_number(0)))
    ELSE IF block.is_int /\ block.number < get_block.number
    THEN Return(Some(get_canonical_block_by_number(block.number)))
    ELSE Raise("BlockNotFound", "No block found for block number")

_get_block_by_number(block) ==
    IF ~block.is_int /\ block.label \in {"latest", "safe", "finalized"}
    THEN Return(Some(get_canonical_block_by_number(Max(0, get_block.number - 1))))
    ELSE IF ~block.is_int /\ block.label = "earliest"
    THEN Return(Some(get_canonical_block_by_number(0)))
    ELSE IF ~block.is_int /\ block.label = "pending"
    THEN Return(Some(get_block))
    ELSE IF block.is_int /\ block.number < get_block.number
    THEN Return(Some(get_canonical_block_by_number(block.number)))
    ELSE Raise("BlockNotFound", "No block found for block number")

get_latest_block_hash == _get_block_by_number(Label("latest")).value[1].hash

get_latest_block_number == _get_block_by_number(Label("latest")).value[1].number

\* variant: the found block's number is not compared with the head's
_get_block_by_hash_unchecked(block_hash) ==
    IF ~HasBlock(block_hash)
    THEN Raise("BlockNotFound", "No block found for block hash")
    ELSE Return(Some(BlockByHash(block_hash)))

_get_block_by_hash(block_hash) ==
    IF ~HasBlock(block_hash)
    THEN Raise("BlockNotFound", "No block found for block hash")
    ELSE IF BlockByHash(block_hash).number >= get_block.number
    THEN Raise("BlockNotFound", "No block found for block hash")
    ELSE Return(Some(BlockByHash(block_hash)))

\* the first index (0-based, from i) of a transaction of the block with the hash
RECURSIVE ScanTransactions(_, _, _)
ScanTransactions(block, transaction_hash, i) ==
    IF i >= Len(block.transactions)
    THEN None
    ELSE IF block.transactions[i + 1].hash = transaction_hash
    THEN Some(<<block, block.transactions[i + 1], i>>)
    ELSE ScanTransactions(block, transaction_hash, i + 1)

\* for block_number in range(head_block.number - 1, -1, -1)
RECURSIVE ScanCanonical(_, _)
ScanCanonical(block_number, transaction_hash) ==
    IF block_number < 0
    THEN None
    ELSE LET found == ScanTransactions(get_canonical_block_by_number(block_number),
                                       transaction_hash, 0)
         IN  IF found # None THEN found
             ELSE ScanCanonical(block_number - 1, transaction_hash)

\* variant: the head block is not scanned
_get_transaction_by_hash_chain_only(transaction_hash) ==
    LET head_block == get_block
        in_chain == ScanCanonical(head_block.number - 1, transaction_hash)
    IN  IF in_chain # None THEN Return(in_chain)
        ELSE Raise("TransactionNotFound", "No transaction found for transaction hash")

_get_transaction_by_hash(transaction_hash) ==
    LET head_block == get_block
        in_head == ScanTransactions(head_block, transaction_hash, 0)
        in_chain == ScanCanonical(head_block.number - 1, transaction_hash)
    IN  IF in_head # None THEN Return(in_head)
        ELSE IF in_chain # None THEN Return(in_chain)
        ELSE Raise("TransactionNotFound", "No transaction found for transaction hash")

(***************************************************************************)
(* The projection layer.  Indices are 0-based as in the source.            *)
(***************************************************************************)
Min(a, b) == IF a <= b THEN a ELSE b

\* isinstance(transaction, TypedTransaction), then the read of gas_price
_extract_transaction_type(transaction) ==
    IF transaction.typed
    THEN IF transaction.gas_price = None THEN 2 ELSE 1
    ELSE 0

\* variant: the tip is added to the base fee without the cap of max_fee_per_gas
_calculate_effective_gas_price_uncapped(transaction, block, transaction_type) ==
    IF transaction_type = 2
    THEN transaction.max_priority_fee_per_gas + block.base_fee_per_gas
    ELSE transaction.gas_price[1]

_calculate_effective_gas_price(transaction, block, transaction_type) ==
    IF transaction_type = 2
    THEN Min(transaction.max_fee_per_gas,
             transaction.max_priority_fee_per_gas + block.base_fee_per_gas)
    ELSE transaction.gas_price[1]

make_transaction_info(block, transaction, transaction_index, is_pending) ==
    LET txn_type == _extract_transaction_type(transaction)
    IN  [type |-> txn_type,
         hash |-> transaction.hash,
         block_hash |-> IF is_pending THEN None ELSE Some(block.hash),
         block_number |-> block.number,
         transaction_index |-> IF is_pending THEN None ELSE Some(transaction_index),
         max_fee_per_gas |-> transaction.max_fee_per_gas,
         max_priority_fee_per_gas |-> transaction.max_priority_fee_per_gas,
         gas_price |-> IF is_pending THEN transaction.max_fee_per_gas
                       ELSE _calculate_effective_gas_price(transaction, block, txn_type)]

\* variant: the listed transactions are projected as mined ones
make_block_info_transactions_unmarked(block, with_transactions, is_pending) ==
    [number |-> block.number,
     hash |-> IF ~is_pending THEN Some(block.hash) ELSE None,
     parent_hash |-> block.parent_hash,
     nonce |-> IF ~is_pending THEN Some(block.nonce) ELSE None,
     logs_bloom |-> IF ~is_pending THEN Some(block.bloom) ELSE None,
     miner |-> IF ~is_pending THEN Some(block.coinbase) ELSE None,
     difficulty |-> IF ~is_pending THEN block.difficulty ELSE 0,
     total_difficulty |-> IF ~is_pending THEN Some(block.difficulty) ELSE None,
     base_fee_per_gas |-> block.base_fee_per_gas,
     with_transactions |-> with_transactions,
     transactions |->
        IF with_transactions
        THEN [i \in 1 .. Len(block.transactions) |->
                 make_transaction_info(block, block.transactions[i], i - 1, FALSE)]
        ELSE [i \in 1 .. Len(block.transactions) |->
                 [hash |-> block.transactions[i].hash]]]

make_block_info(block, with_transactions, is_pending) ==
    [number |-> block.number,
     hash |-> IF ~is_pending THEN Some(block.hash) ELSE None,
     parent_hash |-> block.parent_hash,
     nonce |-> IF ~is_pending THEN Some(block.nonce) ELSE None,
     logs_bloom |-> IF ~is_pending THEN Some(block.bloom) ELSE None,
     miner |-> IF ~is_pending THEN Some(block.coinbase) ELSE None,
     difficulty |-> IF ~is_pending THEN block.difficulty ELSE 0,
     total_difficulty |-> IF ~is_pending THEN Some(block.difficulty) ELSE None,
     base_fee_per_gas |-> block.base_fee_per_gas,
     with_transactions |-> with_transactions,
     transactions |->
        IF with_transactions
        THEN [i \in 1 .. Len(block.transactions) |->
                 make_transaction_info(block, block.transactions[i], i - 1, is_pending)]
        ELSE [i \in 1 .. Len(block.transactions) |->
                 [hash |-> block.transactions[i].hash]]]

\* variant: the gas of the receipts before it is not subtracted
make_transaction_receipt_cumulative(block, transaction, receipts, transaction_index) ==
    LET txn_type == _extract_transaction_type(transaction)
        receipt == receipts[transaction_index + 1]
    IN  [block_hash |-> block.hash,
         block_number |-> block.number,
         cumulative_gas_used |-> receipt.gas_used,
         effective_gas_price |->
            _calculate_effective_gas_price(transaction, block, txn_type),
         gas_used |-> receipt.gas_used,
         transaction_hash |-> transaction.hash,
         transaction_index |-> transaction_index,
         type |-> txn_type]

make_transaction_receipt(block, transaction, receipts, transaction_index) ==
    LET txn_type == _extract_transaction_type(transaction)
        receipt == receipts[transaction_index + 1]
        origin_gas == IF transaction_index = 0 THEN 0
                      ELSE receipts[(transaction_index - 1) + 1].gas_used
    IN  [block_hash |-> block.hash,
         block_number |-> block.number,
         cumulative_gas_used |-> receipt.gas_used,
         effective_gas_price |->
            _calculate_effective_gas_price(transaction, block, txn_type),
         gas_used |-> receipt.gas_used - origin_gas,
         transaction_hash |-> transaction.hash,
         transaction_index |-> transaction_index,
         type |-> txn_type]

(***************************************************************************)
(* PyEVMBackend: the read operations.                                      *)
(***************************************************************************)
\* variant: the latest block counts as pending too
get_block_by_number_off_by_one(block, with_transactions) ==
    LET found == _get_block_by_number(block)
    IN  IF ~Returned(found) THEN found
        ELSE LET b == found.value[1]
                 is_pending == b.number >= get_block.number - 1
             IN  Return(Some(make_block_info(b, with_transactions, is_pending)))

get_block_by_number(block, with_transactions) ==
    LET found == _get_block_by_number(block)
    IN  IF ~Returned(found) THEN found
        ELSE LET b == found.value[1]
                 is_pending == b.number = get_block.number
             IN  Return(Some(make_block_info(b, with_transactions, is_pending)))

get_block_by_hash(block_hash, with_transactions) ==
    LET found == _get_block_by_hash(block_hash)
    IN  IF ~Returned(found) THEN found
        ELSE LET b == found.value[1]
                 is_pending == b.number = get_block.number
             IN  Return(Some(make_block_info(b, with_transactions, is_pending)))

\* variant: the transactions of the latest block count as pending too
get_transaction_by_hash_off_by_one(transaction_hash) ==
    LET found == _get_transaction_by_hash(transaction_hash)
    IN  IF ~Returned(found) THEN found
        ELSE LET block == found.value[1][1]
                 transaction == found.value[1][2]
                 transaction_index == found.value[1][3]
                 is_pending == block.number >= get_block.number - 1
             IN  Return(Some(make_transaction_info(block, transaction,
                                                   transaction_index, is_pending)))

get_transaction_by_hash(transaction_hash) ==
    LET found == _get_transaction_by_hash(transaction_hash)
    IN  IF ~Returned(found) THEN found
        ELSE LET block == found.value[1][1]
                 transaction == found.value[1][2]
                 transaction_index == found.value[1][3]
                 is_pending == block.number = get_block.number
             IN  Return(Some(make_transaction_info(block, transaction,
                                                   transaction_index, is_pending)))

\* variant: the transactions of the latest block have no receipt yet
get_transaction_receipt_off_by_one(transaction_hash) ==
    LET found == _get_transaction_by_hash(transaction_hash)
    IN  IF ~Returned(found) THEN found
        ELSE LET block == found.value[1][1]
                 transaction == found.value[1][2]
                 transaction_index == found.value[1][3]
                 is_pending == block.number >= get_block.number - 1
             IN  IF is_pending THEN Return(None)
                 ELSE LET block_receipts == get_receipts(block)
                      IN  Return(Some(make_transaction_receipt(
                                          block, transaction, block_receipts,
                                          transaction_index)))

get_transaction_receipt(transaction_hash) ==
    LET found == _get_transaction_by_hash(transaction_hash)
    IN  IF ~Returned(found) THEN found
        ELSE LET block == found.value[1][1]
                 transaction == found.value[1][2]
                 transaction_index == found.value[1][3]
                 is_pending == block.number = get_block.number
             IN  IF is_pending THEN Return(None)
                 ELSE LET block_receipts == get_receipts(block)
                      IN  Return(Some(make_transaction_receipt(
                                          block, transaction, block_receipts,
                                          transaction_index)))

\* variant: an unresolved block reference falls back to the latest block
_get_vm_for_block_number_fallback(block) ==
    LET found == _get_block_by_number(block)
    IN  IF ~Returned(found)
        THEN Return(Some([at_header |-> BlockByHash(canonical_head).hash]))
        ELSE Return(Some([at_header |-> found.value[1].hash]))

\* chain.get_vm(at_header=block.header): the state at the resolved block
_get_vm_for_block_number(block) ==
    LET found == _get_block_by_number(block)
    IN  IF ~Returned(found) THEN found
        ELSE Return(Some([at_header |-> found.value[1].hash]))

\* get_transaction_count, get_balance, get_code, get_storage: a read of the
\* state of the resolved block; `what` names the value read
get_state(what, block) ==
    LET vm == _get_vm_for_block_number(block)
    IN  IF ~Returned(vm) THEN vm
        ELSE Return(Some([read |-> what, at_header |-> vm.value[1].at_header]))

(***************************************************************************)
(* What the engine answers to a spoofed transaction (get_transaction_result *)
(* and estimate_gas) or to apply_transaction: a result, or one of the       *)
(* exceptions the backend handles.  Revert is a VMError; it is caught      *)
(* first.  Byte strings are sequences of 0..255.                           *)
(***************************************************************************)
ReasonBytes == <<114, 101, 97, 115, 111, 110>>

EngineResults ==
    {[kind |-> "ok", data |-> <<0, 42>>, text |-> ""],
     [kind |-> "Revert", data |-> <<>>, text |-> ""],
     [kind |-> "Revert", data |-> ReasonBytes, text |-> ""],
     [kind |-> "ValidationError", data |-> <<>>, text |-> "Invalid transaction nonce"],
     [kind |-> "VMError", data |-> <<>>, text |-> "Out of gas"]}

\* the try/except around chain.get_transaction_result and chain.estimate_gas
EngineCall(result) ==
    IF result.kind = "ValidationError"
    THEN Raise("TransactionFailed", result.text)
    ELSE IF result.kind = "Revert"
    THEN Raise("TransactionReverted", result.data)
    ELSE IF result.kind = "VMError"
    THEN Raise("TransactionFailed", result.text)
    ELSE Return(Some(result.data))

call(params, block, result) ==
    LET header == _get_block_by_number(block)
        nonce == get_state("nonce", block)
    IN  IF ~Returned(header) THEN header
        ELSE IF ~Returned(nonce) THEN nonce
        ELSE EngineCall(result)

estimate_gas(params, block, result) ==
    LET header == _get_block_by_number(block)
        nonce == get_state("nonce", block)
    IN  IF ~Returned(header) THEN header
        ELSE IF ~Returned(nonce) THEN nonce
        ELSE EngineCall(result)

\* chain.apply_transaction either adds the transaction to the head block or
\* raises ValidationError
send_decoded_transaction(evm_transaction, result) ==
    IF result.kind = "ValidationError"
    THEN Raise("TransactionFailed", result.text)
    ELSE Return(Some(evm_transaction.hash))

(***************************************************************************)
(* The engine's write interface.                                           *)
(***************************************************************************)
\* the hashes of the transactions of the canonical chain and of the head block:
\* their nonces are used, so the engine rejects them
IncludedHashes ==
    {pending[i].hash : i \in 1 .. Len(pending)} \cup
    {h \in TransactionHashes :
        \E n \in DOMAIN canonical :
            LET b == get_canonical_block_by_number(n)
            IN  \E i \in 1 .. Len(b.transactions) : b.transactions[i].hash = h}

\* what chain.apply_transaction may answer for the transaction
ApplyResults(evm_transaction) ==
    {r \in EngineResults :
        \/ r.kind = "ValidationError"
        \/ r.kind = "ok" /\ evm_transaction.hash \notin IncludedHashes
                         /\ Len(pending) < MaxPending}

\* the ancestor with number n of a persisted block
RECURSIVE Ancestor(_, _)
Ancestor(b, n) ==
    IF b.number = n THEN b ELSE Ancestor(BlockByHash(b.parent_hash), n)

\* chain.mine_block(coinbase, mix_hash=os.urandom(32)): the head block is
\* sealed under a fresh hash, persisted and made the canonical head; a new
\* empty head block is started on top of it
Mined ==
    [get_block EXCEPT !.hash = nextHash, !.coinbase = ZERO_ADDRESS]

MineEffect ==
    /\ response = Idle
    /\ nextHash <= MaxBlocks + 1
    /\ db' = db \cup {Mined}
    /\ canonical' = [n \in 0 .. Mined.number |->
                        IF n = Mined.number THEN Mined.hash ELSE canonical[n]]
    /\ canonical_head' = Mined.hash
    /\ pending' = <<>>
    /\ nextHash' = nextHash + 1

mine_block ==
    /\ MineEffect
    /\ response' = [op |-> "mine_block", params |-> <<>>,
                    inner |-> Return(Some(Mined.hash)),
                    outcome |-> Return(Some(Mined.hash))]

\* the header's timestamp is moved (timestamps are not represented) and the
\* block is mined
advance_time ==
    /\ MineEffect
    /\ response' = [op |-> "advance_time", params |-> <<>>,
                    inner |-> Return(None), outcome |-> Return(None)]

\* chain.get_block_by_hash raises HeaderNotFound for an unknown hash; otherwise
\* the block becomes the canonical head (_set_as_canonical_chain_head, then
\* import_block or from_genesis_header), the canonical index follows its
\* ancestors, and a new empty head block is started on top of it
revert_to_block ==
    \E block_hash \in {b.hash : b \in db} \cup {get_block.hash, GENESIS_PARENT_HASH} :
        /\ response = Idle
        /\ IF ~HasBlock(block_hash)
           THEN /\ response' = [op |-> "revert_to_block",
                                params |-> <<ToString(block_hash)>>,
                                inner |-> Raise("HeaderNotFound", ""),
                                outcome |-> Raise("HeaderNotFound", "")]
                /\ UNCHANGED chainVars
           ELSE LET block == BlockByHash(block_hash)
                IN  /\ canonical' = [n \in 0 .. block.number |->
                                        Ancestor(block, n).hash]
                    /\ canonical_head' = block.hash
                    /\ pending' = <<>>
                    /\ UNCHANGED <<db, nextHash>>
                    /\ response' = [op |-> "revert_to_block",
                                    params |-> <<ToString(block_hash)>>,
                                    inner |-> Return(None),
                                    outcome |-> Return(None)]

(***************************************************************************)
(* The parameter-schema layer (structure / unstructure of ._schema).       *)
(* JSON parameters are strings: quantities and byte strings are 0x-hex,    *)
(* block labels are words, booleans are true / false, parameter objects    *)
(* are written {...}.                                                      *)
(***************************************************************************)
HexDigits == <<"0", "1", "2", "3", "4", "5", "6", "7",
               "8", "9", "a", "b", "c", "d", "e", "f">>

HexByte(b) == HexDigits[(b \div 16) + 1] \o HexDigits[(b % 16) + 1]

RECURSIVE HexBody(_)
HexBody(bytes) ==
    IF bytes = <<>> THEN "" ELSE HexByte(Head(bytes)) \o HexBody(Tail(bytes))

\* unstructure(bytes): the 0x-prefixed hex encoding
unstructure_bytes(bytes) == "0x" \o HexBody(bytes)

\* unstructure(int), for the numbers of the model (one hex digit)
unstructure_int(n) == "0x" \o HexDigits[n + 1]

\* a 32-byte hash, written by its number in the model
unstructure_hash(h) == "0xhash" \o ToString(h)

AddressJSON == "0x00000000000000000000000000000000000000aa"

CallParamsJSON == "{to,data}"

FilterParamsJSON == "{fromBlock,toBlock}"

\* the signed encoding of a transaction
RawTransaction(transaction) == "0xraw" \o ToString(transaction.hash)

\* the hashes of the transactions whose projections are checked one by one:
\* the position in the block, 0 for the transaction of the head block
InputHashes == 0 .. MaxReceipts

AllHashes == BlockHashes \cup TransactionHashes \cup InputHashes

\* structure of one element: None when the JSON value is not of the type
StructureOne(type, json) ==
    CASE type = "Address" ->
            IF json = AddressJSON THEN Some(json) ELSE None
      [] type = "Block" ->
            IF json \in BlockLabels THEN Some(Label(json))
            ELSE IF \E n \in 0 .. 15 : unstructure_int(n) = json
            THEN Some(Number(CHOOSE n \in 0 .. 15 : unstructure_int(n) = json))
            ELSE None
      [] type = "int" ->
            IF \E n \in 0 .. 15 : unstructure_int(n) = json
            THEN Some(CHOOSE n \in 0 .. 15 : unstructure_int(n) = json)
            ELSE None
      [] type = "Hash32" ->
            IF \E h \in AllHashes : unstructure_hash(h) = json
            THEN Some(CHOOSE h \in AllHashes : unstructure_hash(h) = json)
            ELSE None
      [] type = "bool" ->
            IF json \in {"true", "false"} THEN Some(json = "true") ELSE None
      [] type = "bytes" ->
            IF \E t \in Transactions : RawTransaction(t) = json
            THEN Some(json) ELSE None
      [] type \in {"EthCallParams", "EstimateGasParams"} ->
            IF json = CallParamsJSON THEN Some(json) ELSE None
      [] type = "FilterParams" ->
            IF json = FilterParamsJSON THEN Some(json) ELSE None

\* structure(Tuple[...], params): strict in arity and in every element's type
structure(shape, params) ==
    IF Len(params) # Len(shape) THEN None
    ELSE IF \E i \in 1 .. Len(shape) : StructureOne(shape[i], params[i]) = None
    THEN None
    ELSE Some([i \in 1 .. Len(shape) |-> StructureOne(shape[i], params[i])[1]])

\* what structure raises on a mismatch: raised before any backend operation
StructuringFailed ==
    [Raise("StructuringError", "") EXCEPT !.executed = FALSE]

(***************************************************************************)
(* _rpc.py: the error taxonomy and the error mapper.                       *)
(***************************************************************************)
SERVER_ERROR == -32000

INVALID_REQUEST == -32600

METHOD_NOT_FOUND == -32601

INVALID_PARAMETER == -32602

EXECUTION_ERROR == 3

\* RPCError.__init__: data is Optional[bytes]
RPCError(code, message, data) ==
    [kind |-> "raise", value |-> None, exc |-> "RPCError", args |-> None,
     code |-> Some(code), message |-> message,
     data |-> IF data # None THEN Some(unstructure_bytes(data[1])) ELSE None,
     executed |-> TRUE]

\* variant: every revert is reported as an EXECUTION_ERROR with its data
into_rpc_errors_no_empty_case(o) ==
    IF o.kind = "raise" /\ o.exc = "TransactionReverted"
    THEN RPCError(EXECUTION_ERROR, "execution reverted", Some(o.args[1]))
    ELSE IF o.kind = "raise" /\ o.exc = "TransactionFailed"
    THEN RPCError(SERVER_ERROR, o.args[1], None)
    ELSE o

\* variant: every other exception is reported as a SERVER_ERROR too
into_rpc_errors_catch_all(o) ==
    IF o.kind = "raise" /\ o.exc = "TransactionReverted"
    THEN LET reason_data == o.args[1]
         IN  IF reason_data = <<>>
             THEN RPCError(SERVER_ERROR, "execution reverted", None)
             ELSE RPCError(EXECUTION_ERROR, "execution reverted", Some(reason_data))
    ELSE IF o.kind = "raise"
    THEN RPCError(SERVER_ERROR, o.args[1], None)
    ELSE o

\* the context manager around the handler: o is what the handler did
into_rpc_errors(o) ==
    IF o.kind = "raise" /\ o.exc = "TransactionReverted"
    THEN LET reason_data == o.args[1]
         IN  IF reason_data = <<>>
             THEN RPCError(SERVER_ERROR, "execution reverted", None)
             ELSE RPCError(EXECUTION_ERROR, "execution reverted", Some(reason_data))
    ELSE IF o.kind = "raise" /\ o.exc = "TransactionFailed"
    THEN RPCError(SERVER_ERROR, o.args[1], None)
    ELSE o

(***************************************************************************)
(* _rpc.py: the handlers.  Each decodes its positional parameters, calls   *)
(* the node, which forwards to the backend operation of the same name, and *)
(* encodes the result.  Results that come from the node's own state or     *)
(* from its filters are named, not computed.                               *)
(***************************************************************************)
NodeResult(name) == Return(Some([node |-> name]))

\* unstructure of a bytes result of a backend operation
UnstructureBytes(o) ==
    IF Returned(o) THEN Return(Some(unstructure_bytes(o.value[1]))) ELSE o

_net_version(params) ==
    IF structure(<<>>, params) = None THEN StructuringFailed
    ELSE NodeResult("net_version")

_eth_chain_id(params) ==
    IF structure(<<>>, params) = None THEN StructuringFailed
    ELSE NodeResult("eth_chain_id")

_eth_block_number(params) ==
    IF structure(<<>>, params) = None THEN StructuringFailed
    ELSE Return(Some(unstructure_int(get_latest_block_number)))

_eth_get_balance(params) ==
    LET decoded == structure(<<"Address", "Block">>, params)
    IN  IF decoded = None THEN StructuringFailed
        ELSE get_state("balance", decoded[1][2])

_eth_get_code(params) ==
    LET decoded == structure(<<"Address", "Block">>, params)
    IN  IF decoded = None THEN StructuringFailed
        ELSE get_state("code", decoded[1][2])

_eth_get_storage_at(params) ==
    LET decoded == structure(<<"Address", "int", "Block">>, params)
    IN  IF decoded = None THEN StructuringFailed
        ELSE get_state("storage", decoded[1][3])

_eth_get_transaction_count(params) ==
    LET decoded == structure(<<"Address", "Block">>, params)
    IN  IF decoded = None THEN StructuringFailed
        ELSE get_state("nonce", decoded[1][2])

\* variant: TransactionNotFound is not caught
_eth_get_transaction_by_hash_uncaught(params) ==
    LET decoded == structure(<<"Hash32">>, params)
    IN  IF decoded = None THEN StructuringFailed
        ELSE get_transaction_by_hash(decoded[1][1])

_eth_get_transaction_by_hash(params) ==
    LET decoded == structure(<<"Hash32">>, params)
    IN  IF decoded = None THEN StructuringFailed
        ELSE LET transaction == get_transaction_by_hash(decoded[1][1])
             IN  IF transaction.kind = "raise" /\ transaction.exc = "TransactionNotFound"
                 THEN Return(None)
                 ELSE transaction

_eth_get_block_by_number(params) ==
    LET decoded == structure(<<"Block", "bool">>, params)
    IN  IF decoded = None THEN StructuringFailed
        ELSE LET block_info == get_block_by_number(decoded[1][1], decoded[1][2])
             IN  IF block_info.kind = "raise" /\ block_info.exc = "BlockNotFound"
                 THEN Return(None)
                 ELSE block_info

_eth_get_block_by_hash(params) ==
    LET decoded == structure(<<"Hash32", "bool">>, params)
    IN  IF decoded = None THEN StructuringFailed
        ELSE LET block_info == get_block_by_hash(decoded[1][1], decoded[1][2])
             IN  IF block_info.kind = "raise" /\ block_info.exc = "BlockNotFound"
                 THEN Return(None)
                 ELSE block_info

_eth_get_transaction_receipt(params) ==
    LET decoded == structure(<<"Hash32">>, params)
    IN  IF decoded = None THEN StructuringFailed
        ELSE LET receipt == get_transaction_receipt(decoded[1][1])
             IN  IF receipt.kind = "raise" /\ receipt.exc = "TransactionNotFound"
                 THEN Return(None)
                 ELSE receipt

\* backend.decode_transaction: the transaction the raw bytes encode
decode_transaction(raw_transaction) ==
    CHOOSE t \in Transactions : RawTransaction(t) = raw_transaction

_eth_send_raw_transaction(params, result) ==
    LET decoded == structure(<<"bytes">>, params)
    IN  IF decoded = None THEN StructuringFailed
        ELSE send_decoded_transaction(decode_transaction(decoded[1][1]), result)

_eth_call(params, result) ==
    LET decoded == structure(<<"EthCallParams", "Block">>, params)
    IN  IF decoded = None THEN StructuringFailed
        ELSE UnstructureBytes(call(decoded[1][1], decoded[1][2], result))

_eth_estimate_gas(params, result) ==
    LET decoded == structure(<<"EstimateGasParams", "Block">>, params)
    IN  IF decoded = None THEN StructuringFailed
        ELSE UnstructureBytes(estimate_gas(decoded[1][1], decoded[1][2], result))

_eth_gas_price(params) ==
    IF structure(<<>>, params) = None THEN StructuringFailed
    ELSE NodeResult("eth_gas_price")

_eth_new_block_filter(params) ==
    IF structure(<<>>, params) = None THEN StructuringFailed
    ELSE NodeResult("eth_new_block_filter")

_eth_new_pending_transaction_filter(params) ==
    IF structure(<<>>, params) = None THEN StructuringFailed
    ELSE NodeResult("eth_new_pending_transaction_filter")

_eth_new_filter(params) ==
    IF structure(<<"FilterParams">>, params) = None THEN StructuringFailed
    ELSE NodeResult("eth_new_filter")

_eth_get_filter_changes(params) ==
    IF structure(<<"int">>, params) = None THEN StructuringFailed
    ELSE NodeResult("eth_get_filter_changes")

_eth_get_filter_logs(params) ==
    IF structure(<<"int">>, params) = None THEN StructuringFailed
    ELSE NodeResult("eth_get_filter_logs")

_eth_get_logs(params) ==
    IF structure(<<"FilterParams">>, params) = None THEN StructuringFailed
    ELSE NodeResult("eth_get_logs")

\* the keys of the methods dict of RPCNode.rpc
methods ==
    {"net_version", "eth_chainId", "eth_getBalance", "eth_getTransactionReceipt",
     "eth_getTransactionCount", "eth_getCode", "eth_getStorageAt", "eth_call",
     "eth_sendRawTransaction", "eth_estimateGas", "eth_gasPrice", "eth_blockNumber",
     "eth_getTransactionByHash", "eth_getBlockByHash", "eth_getBlockByNumber",
     "eth_newBlockFilter", "eth_newPendingTransactionFilter", "eth_newFilter",
     "eth_getFilterChanges", "eth_getLogs", "eth_getFilterLogs"}

\* methods[method_name](params): a missing key raises KeyError
Dispatch(method_name, params, result) ==
    CASE method_name = "net_version" -> _net_version(params)
      [] method_name = "eth_chainId" -> _eth_chain_id(params)
      [] method_name = "eth_getBalance" -> _eth_get_balance(params)
      [] method_name = "eth_getTransactionReceipt" -> _eth_get_transaction_receipt(params)
      [] method_name = "eth_getTransactionCount" -> _eth_get_transaction_count(params)
      [] method_name = "eth_getCode" -> _eth_get_code(params)
      [] method_name = "eth_getStorageAt" -> _eth_get_storage_at(params)
      [] method_name = "eth_call" -> _eth_call(params, result)
      [] method_name = "eth_sendRawTransaction" -> _eth_send_raw_transaction(params, result)
      [] method_name = "eth_estimateGas" -> _eth_estimate_gas(params, result)
      [] method_name = "eth_gasPrice" -> _eth_gas_price(params)
      [] method_name = "eth_blockNumber" -> _eth_block_number(params)
      [] method_name = "eth_getTransactionByHash" -> _eth_get_transaction_by_hash(params)
      [] method_name = "eth_getBlockByHash" -> _eth_get_block_by_hash(params)
      [] method_name = "eth_getBlockByNumber" -> _eth_get_block_by_number(params)
      [] method_name = "eth_newBlockFilter" -> _eth_new_block_filter(params)
      [] method_name = "eth_newPendingTransactionFilter" ->
            _eth_new_pending_transaction_filter(params)
      [] method_name = "eth_newFilter" -> _eth_new_filter(params)
      [] method_name = "eth_getFilterChanges" -> _eth_get_filter_changes(params)
      [] method_name = "eth_getLogs" -> _eth_get_logs(params)
      [] method_name = "eth_getFilterLogs" -> _eth_get_filter_logs(params)

\* the body of the with statement: methods[method_name](params); a name that
\* is not a key of the dict raises KeyError before any handler runs
Handled(method_name, params, result) ==
    IF method_name \notin methods
    THEN [Raise("KeyError", method_name) EXCEPT !.executed = FALSE]
    ELSE Dispatch(method_name, params, result)

\* RPCNode.rpc: the lookup and the handler run inside into_rpc_errors
rpc(method_name, params, result) ==
    into_rpc_errors(Handled(method_name, params, result))

(***************************************************************************)
(* The requests the model issues.                                          *)
(***************************************************************************)
UnregisteredNames == {"eth_accounts", "web3_clientVersion", "eth_getbalance"}

BlockJSON == BlockLabels \cup {unstructure_int(n) : n \in BlockNumbers}

BoolJSON == {"true", "false"}

\* the hashes of the persisted blocks, the hash of the head block's header
\* and a hash that no block has
KnownHashes == {b.hash : b \in db} \cup {get_block.hash, GENESIS_PARENT_HASH}

GoodParams(method_name) ==
    CASE method_name \in {"eth_getBalance", "eth_getCode", "eth_getTransactionCount"} ->
            {<<AddressJSON, b>> : b \in BlockJSON}
      [] method_name = "eth_getStorageAt" ->
            {<<AddressJSON, unstructure_int(0), b>> : b \in BlockJSON}
      [] method_name \in {"eth_getTransactionByHash", "eth_getTransactionReceipt"} ->
            {<<unstructure_hash(h)>> : h \in TransactionHashes}
      [] method_name = "eth_getBlockByNumber" ->
            {<<b, w>> : b \in BlockJSON, w \in BoolJSON}
      [] method_name = "eth_getBlockByHash" ->
            {<<unstructure_hash(h), w>> : h \in KnownHashes, w \in BoolJSON}
      [] method_name = "eth_sendRawTransaction" ->
            {<<RawTransaction(t)>> : t \in Transactions}
      [] method_name \in {"eth_call", "eth_estimateGas"} ->
            {<<CallParamsJSON, b>> : b \in BlockJSON}
      [] method_name \in {"eth_newFilter", "eth_getLogs"} ->
            {<<FilterParamsJSON>>}
      [] method_name \in {"eth_getFilterChanges", "eth_getFilterLogs"} ->
            {<<unstructure_int(0)>>}
      [] OTHER -> {<<>>}

\* a JSON value of another type than v
WrongType(v) == IF v \in BoolJSON THEN "latest" ELSE "true"

\* one well-formed tuple with an element too many, an element too few, or
\* one element of the wrong type
BadParams(method_name) ==
    LET g == CHOOSE t \in GoodParams(method_name) : TRUE
    IN  {Append(g, "true")}
        \cup (IF g = <<>> THEN {} ELSE {SubSeq(g, 1, Len(g) - 1)})
        \cup {[g EXCEPT ![i] = WrongType(g[i])] : i \in 1 .. Len(g)}

ParamChoices(method_name) == GoodParams(method_name) \cup BadParams(method_name)

NoResult == CHOOSE r \in EngineResults : r.kind = "ok"

\* what the engine may answer during the request
ResultChoices(method_name, params) ==
    IF /\ method_name \in {"eth_call", "eth_estimateGas"}
       /\ structure(<<"EthCallParams", "Block">>, params) # None
       /\ Returned(_get_block_by_number(StructureOne("Block", params[2])[1]))
    THEN EngineResults
    ELSE IF method_name = "eth_sendRawTransaction" /\ structure(<<"bytes">>, params) # None
    THEN ApplyResults(decode_transaction(params[1]))
    ELSE {NoResult}

\* one call of RPCNode.rpc.  eth_sendRawTransaction adds the transaction to
\* the head block when the engine accepts it; every other method only reads.
RpcCall ==
    /\ response = Idle
    /\ \E method_name \in methods \cup UnregisteredNames :
        \E params \in ParamChoices(method_name) :
            \E result \in ResultChoices(method_name, params) :
                LET o == rpc(method_name, params, result)
                IN  /\ response' = [op |-> method_name, params |-> params,
                                    inner |-> Handled(method_name, params, result),
                                    outcome |-> o]
                    /\ IF method_name = "eth_sendRawTransaction" /\ Returned(o)
                       THEN /\ pending' = Append(pending, decode_transaction(params[1]))
                            /\ UNCHANGED <<db, canonical, canonical_head, nextHash>>
                       ELSE UNCHANGED chainVars

Init ==
    /\ db = {GenesisBlock}
    /\ canonical = [n \in {0} |-> GenesisHash]
    /\ canonical_head = GenesisHash
    /\ pending = <<>>
    /\ nextHash = GenesisHash + 1
    /\ response = Idle

\* the operation in progress returns (or raises) to its caller
Respond ==
    /\ response # Idle
    /\ response' = Idle
    /\ UNCHANGED chainVars

Next ==
    \/ mine_block
    \/ advance_time
    \/ revert_to_block
    \/ RpcCall
    \/ Respond

Spec == Init /\ [][Next]_vars

(***************************************************************************)
(* The projections of transactions and receipts, applied to drawn inputs:  *)
(* a chain of the genesis block and one mined block whose transactions,    *)
(* fees and base fee are drawn, with one drawn transaction in the head     *)
(* block.  Fees are in wei, gas in units of gas.                           *)
(***************************************************************************)
GasInputs == {21000, 42000}

BaseFeeInputs == {50, 95}

\* the fee fields of the three kinds of transaction
FeeInputs(execution_gas) ==
    {LegacyTransaction(0, 7, execution_gas),
     AccessListTransaction(0, 8, execution_gas),
     DynamicFeeTransaction(0, 100, 10, execution_gas),
     DynamicFeeTransaction(0, 40, 10, execution_gas)}

TransactionInputs == UNION {FeeInputs(g) : g \in GasInputs}

\* the transaction sequences of the mined block; a transaction's hash is its
\* position
BlockInputs ==
    UNION {{[i \in 1 .. n |-> [ts[i] EXCEPT !.hash = i]] :
                ts \in [1 .. n -> TransactionInputs]} : n \in 1 .. MaxReceipts}

ProjectionInit ==
    \E transactions \in BlockInputs, base_fee \in BaseFeeInputs,
       head \in FeeInputs(21000) :
        LET block == [GenesisBlock EXCEPT !.number = 1,
                                          !.hash = GenesisHash + 1,
                                          !.parent_hash = GenesisHash,
                                          !.base_fee_per_gas = base_fee,
                                          !.transactions = transactions]
        IN  /\ db = {GenesisBlock, block}
            /\ canonical = [n \in 0 .. 1 |-> IF n = 0 THEN GenesisHash ELSE block.hash]
            /\ canonical_head = block.hash
            /\ pending = <<head>>
            /\ nextHash = block.hash + 1
            /\ response = Idle

\* one call of eth_getTransactionByHash or eth_getTransactionReceipt
ReadTransaction ==
    /\ response = Idle
    /\ \E method_name \in {"eth_getTransactionByHash", "eth_getTransactionReceipt"} :
        \E h \in InputHashes :
            LET params == <<unstructure_hash(h)>>
            IN  /\ response' = [op |-> method_name, params |-> params,
                                inner |-> Handled(method_name, params, NoResult),
                                outcome |-> rpc(method_name, params, NoResult)]
                /\ UNCHANGED chainVars

ProjectionNext ==
    \/ ReadTransaction
    \/ Respond

ProjectionSpec == ProjectionInit /\ [][ProjectionNext]_vars

(***************************************************************************)
(* Properties.  While a response is in flight the chain is in the state    *)
(* the operation left it in; the read-only methods leave it as they found  *)
(* it, so their responses can be compared with the current chain.          *)
(***************************************************************************)
IsRpc == response.op \in methods \cup UnregisteredNames

\* The properties of the resolver are stated for the states between
\* operations: an operation in progress has already left the chain in the
\* state in which it returns, so these are all the chain states there are.
BetweenOperations == response = Idle

\* C1: rpc with a method name that is not registered fails with an RPCError
\* whose code is METHOD_NOT_FOUND (-32601), whatever the parameters.
C1_UnregisteredIsMethodNotFound ==
    response.op \in UnregisteredNames =>
        /\ response.outcome.kind = "raise"
        /\ response.outcome.exc = "RPCError"
        /\ response.outcome.code = Some(-32601)

\* C2: for a registered method whose positional parameters fail to decode
\* (wrong arity or wrong element type), rpc fails with an RPCError whose code
\* is INVALID_PARAMETER (-32602), before any backend operation is started.
C2_DecodeFailureIsInvalidParameter ==
    (response.op \in methods /\ response.params \in BadParams(response.op)) =>
        /\ response.outcome.kind = "raise"
        /\ response.outcome.exc = "RPCError"
        /\ response.outcome.code = Some(-32602)
        /\ ~response.outcome.executed

\* C3: when the wrapped operation raises TransactionReverted, empty reason
\* data gives RPCError(SERVER_ERROR = -32000, "execution reverted", no data),
\* non-empty reason data gives RPCError(EXECUTION_ERROR = 3, "execution
\* reverted", data = the hex encoding of the raw payload); b"reason" is
\* encoded 0x726561736f6e.
C3_RevertMapping ==
    (IsRpc /\ response.inner.kind = "raise"
           /\ response.inner.exc = "TransactionReverted") =>
        LET reason_data == response.inner.args[1]
            error == response.outcome
        IN  /\ error.kind = "raise"
            /\ error.exc = "RPCError"
            /\ error.message = "execution reverted"
            /\ IF reason_data = <<>>
               THEN error.code = Some(-32000) /\ error.data = None
               ELSE /\ error.code = Some(3)
                    /\ error.data = Some(unstructure_bytes(reason_data))
                    /\ Len(error.data[1]) = 2 + 2 * Len(reason_data)
                    /\ reason_data = ReasonBytes => error.data = Some("0x726561736f6e")

C3_Witness ==
    /\ response.op = "eth_call"
    /\ response.inner.exc = "TransactionReverted"
    /\ response.inner.args = Some(ReasonBytes)
    /\ response.outcome.code = Some(3)
    /\ response.outcome.data = Some("0x726561736f6e")

\* C4: besides the two revert cases into_rpc_errors maps only a
\* TransactionFailed, to RPCError(SERVER_ERROR, the engine's failure text, no
\* data); a result passes through untouched and every other raised failure
\* propagates unchanged.
C4_MapperIsExact ==
    IsRpc =>
        LET inner == response.inner
            o == response.outcome
        IN  /\ (inner.kind = "raise" /\ inner.exc = "TransactionFailed") =>
                    /\ o.kind = "raise" /\ o.exc = "RPCError"
                    /\ o.code = Some(-32000)
                    /\ o.message = inner.args[1]
                    /\ o.message \in {r.text : r \in EngineResults} \ {""}
                    /\ o.data = None
            /\ inner.kind = "return" => o = inner
            /\ (inner.kind = "raise"
                /\ inner.exc \notin {"TransactionReverted", "TransactionFailed"}) =>
                    o = inner
            /\ (o.kind = "raise" /\ o.exc = "RPCError") =>
                    inner.exc \in {"TransactionReverted", "TransactionFailed"}

C4_Witness ==
    /\ response.op = "eth_sendRawTransaction"
    /\ response.inner.exc = "TransactionFailed"
    /\ response.outcome.exc = "RPCError"
    /\ response.outcome.code = Some(-32000)
    /\ response.outcome.message = "Invalid transaction nonce"

\* the decoded parameters of the request in flight
Decoded(shape) == structure(shape, response.params)

\* C5: eth_getTransactionByHash, eth_getTransactionReceipt,
\* eth_getBlockByNumber and eth_getBlockByHash raise nothing and return JSON
\* null whenever the transaction or block they name is not found: a
\* transaction hash that no block from 0 to the head holds, a block number
\* at or above the head's, a block hash that is not persisted or belongs to
\* a block numbered at or above the head.
C5_LookupsReturnNull ==
    /\ (response.op \in {"eth_getTransactionByHash", "eth_getTransactionReceipt"}
        /\ Decoded(<<"Hash32">>) # None) =>
            /\ response.outcome.kind = "return"
            /\ Decoded(<<"Hash32">>)[1][1] \notin IncludedHashes =>
                    response.outcome = Return(None)
    /\ (response.op = "eth_getBlockByNumber"
        /\ Decoded(<<"Block", "bool">>) # None) =>
            LET block == Decoded(<<"Block", "bool">>)[1][1]
            IN  /\ response.outcome.kind = "return"
                /\ (block.is_int /\ block.number >= get_block.number) =>
                        response.outcome = Return(None)
    /\ (response.op = "eth_getBlockByHash"
        /\ Decoded(<<"Hash32", "bool">>) # None) =>
            LET block_hash == Decoded(<<"Hash32", "bool">>)[1][1]
            IN  /\ response.outcome.kind = "return"
                /\ (\A b \in db : b.hash = block_hash => b.number >= get_block.number) =>
                        response.outcome = Return(None)

\* a block left above the head by revert_to_block is asked for by its hash
C5_Witness ==
    /\ response.op = "eth_getBlockByHash"
    /\ Decoded(<<"Hash32", "bool">>) # None
    /\ \E b \in db : /\ b.hash = Decoded(<<"Hash32", "bool">>)[1][1]
                     /\ b.number >= get_block.number
    /\ response.outcome = Return(None)

BlockRequiredMethods ==
    {"eth_call", "eth_estimateGas", "eth_getBalance", "eth_getCode",
     "eth_getStorageAt", "eth_getTransactionCount"}

\* the block reference of a well-formed request of a method that needs a block
RequestedBlock ==
    IF response.op = "eth_getStorageAt"
    THEN Decoded(<<"Address", "int", "Block">>)[1][3]
    ELSE StructureOne("Block", response.params[2])[1]

WellFormedBlockRequest ==
    /\ response.op \in BlockRequiredMethods
    /\ response.inner.executed

C7_ExplicitNumber ==
    BetweenOperations => \A N \in BlockNumbers :
        LET found == _get_block_by_number(Number(N))
            head == BlockByHash(canonical_head).number + 1
        IN  /\ N < head =>
                /\ found.kind = "return"
                /\ found.value[1] \in db
                /\ found.value[1].number = N
                /\ found.value[1].hash = canonical[N]
                /\ found.value # _get_block_by_number(Label("pending")).value
            /\ N >= head =>
                /\ found.kind = "raise"
                /\ found.exc = "BlockNotFound"
            /\ _get_block_by_number(Label("pending")).value[1].number = head

\* the head's own number is asked for and nothing is found
C7_Witness ==
    /\ response.op = "eth_getBlockByNumber"
    /\ get_block.number = 2
    /\ response.params = <<unstructure_int(2), "true">>
    /\ response.outcome = Return(None)
    /\ _get_block_by_number(Number(1)).value[1].number = 1

\* the persisted block with hash h lies below the head
HeldBelowHead(h) == \E b \in db : b.hash = h /\ b.number < get_block.number

\* a persisted block that the canonical index holds at its number
IsCanonical(b) == b.number \in DOMAIN canonical /\ canonical[b.number] = b.hash

\* C8 (as claimed): a lookup by hash h succeeds exactly when the engine holds
\* a block with hash h numbered below the head, and then returns the block
\* that resolving that block's number returns; otherwise it fails with
\* BlockNotFound, so it never resolves to the pending block.
C8_HashLookupEqualsNumberLookup ==
    BetweenOperations => \A h \in BlockHashes :
        LET found == _get_block_by_hash(h)
        IN  /\ found.kind = "return" <=> HeldBelowHead(h)
            /\ found.kind = "return" =>
                /\ found.value = _get_block_by_number(Number(found.value[1].number)).value
                /\ found.value[1] # get_block
            /\ found.kind = "raise" => found.exc = "BlockNotFound"

\* C8 (amended): a lookup by hash h succeeds exactly when the engine holds a
\* block with hash h numbered below the head; it returns that block, which
\* is the block its number resolves to exactly when it is the canonical block
\* at its number (a block that revert_to_block left off the canonical chain
\* is returned too, and its number resolves to another block); otherwise the
\* lookup fails with BlockNotFound, so it never resolves to the pending block.
C8_HashLookupOfCanonicalBlocks ==
    BetweenOperations => \A h \in BlockHashes :
        LET found == _get_block_by_hash(h)
        IN  /\ found.kind = "return" <=> HeldBelowHead(h)
            /\ found.kind = "return" =>
                /\ found.value[1] \in db
                /\ found.value[1].hash = h
                /\ found.value[1] # get_block
                /\ IsCanonical(found.value[1]) <=>
                      found.value =
                          _get_block_by_number(Number(found.value[1].number)).value
            /\ found.kind = "raise" => found.exc = "BlockNotFound"

\* a canonical block is looked up by its hash, and so is (in the same chain
\* state) a block left off the canonical chain, next to one left above the head
C8_Witness ==
    /\ response.op = "eth_getBlockByHash"
    /\ response.outcome.value # None
    /\ response.outcome.value[1].number = 1
    /\ response.outcome.value[1].hash = Some(canonical[1])
    /\ \E b \in db : ~IsCanonical(b) /\ _get_block_by_hash(b.hash).kind = "return"

\* C9: latest, safe and finalized resolve to the canonical block numbered
\* max(0, head.number - 1), which is the block last mined or reverted to;
\* earliest resolves to canonical block 0, the genesis block; pending
\* resolves to the head block, the block under construction on top of the
\* latest one; the latest block hash and number are those of the same block.
C9_Labels ==
    BetweenOperations =>
    LET head == BlockByHash(canonical_head).number + 1
        latest == _get_block_by_number(Label("latest"))
    IN  /\ latest.kind = "return"
        /\ latest.value[1].number = Max(0, head - 1)
        /\ latest.value[1].hash = canonical[Max(0, head - 1)]
        /\ latest.value[1] = BlockByHash(canonical_head)
        /\ _get_block_by_number(Label("safe")) = latest
        /\ _get_block_by_number(Label("finalized")) = latest
        /\ _get_block_by_number(Label("earliest")) = Return(Some(GenesisBlock))
        /\ canonical[0] = GenesisHash
        /\ LET p == _get_block_by_number(Label("pending"))
           IN  /\ p.kind = "return"
               /\ p.value[1].number = head
               /\ p.value[1].parent_hash = canonical_head
               /\ p.value[1].transactions = pending
               /\ p.value[1] \notin db
        /\ get_latest_block_hash = canonical_head
        /\ get_latest_block_number = Max(0, head - 1)

C9_Witness ==
    /\ response.op = "eth_getBlockByNumber"
    /\ response.params = <<"finalized", "false">>
    /\ response.outcome.value # None
    /\ response.outcome.value[1].number = 1
    /\ get_block.number = 2
    /\ pending # <<>>

\* the projections of the pending and of the latest block
PendingInfo == get_block_by_number(Label("pending"), TRUE).value[1]

LatestInfo == get_block_by_number(Label("latest"), TRUE).value[1]

\* C10: when the pending block is projected with number n, then after one
\* mining step latest resolves to a block that is projected with number n
\* and a hash that is not null.
C10_PendingBecomesLatest ==
    [][response'.op \in {"mine_block", "advance_time"} =>
          /\ PendingInfo.hash = None
          /\ LatestInfo'.number = PendingInfo.number
          /\ LatestInfo'.hash # None]_vars

\* a block with a transaction has just been mined and is the latest one
C10_Witness ==
    /\ response.op = "mine_block"
    /\ LatestInfo.number = 2
    /\ LatestInfo.hash = response.outcome.value
    /\ Len(LatestInfo.transactions) = 1

(***************************************************************************)
(* The projections.                                                        *)
(***************************************************************************)
\* a block request in flight has returned a BlockInfo
BlockInfoReturned ==
    /\ response.op \in {"eth_getBlockByNumber", "eth_getBlockByHash"}
    /\ response.outcome.kind = "return"
    /\ response.outcome.value # None

\* the request in flight names its block by an explicit number or by a hash
ByNumberOrHash ==
    \/ response.op = "eth_getBlockByHash"
    \/ /\ response.op = "eth_getBlockByNumber"
       /\ Decoded(<<"Block", "bool">>)[1][1].is_int

\* the engine's block that a returned BlockInfo with that number was made of
ProjectedBlock(number) ==
    IF response.op = "eth_getBlockByHash"
    THEN BlockByHash(Decoded(<<"Hash32", "bool">>)[1][1])
    ELSE IF number = get_block.number THEN get_block
    ELSE get_canonical_block_by_number(number)

\* C11: a projected BlockInfo has hash, nonce, logs_bloom, miner and
\* total_difficulty null and difficulty 0 exactly when its number equals
\* the head block's number, and then every transaction listed in it is
\* projected as pending too (block_hash and transaction_index null,
\* gas_price the max_fee_per_gas); for a block with a number below the
\* head's these fields carry the header's values (every header of this
\* chain has the post-merge difficulty 0).  A block obtained by explicit
\* number or by hash is never projected as pending.
C11_PendingProjection ==
    BlockInfoReturned =>
        LET info == response.outcome.value[1]
            is_pending == info.number = get_block.number
            block == ProjectedBlock(info.number)
        IN  /\ (info.hash = None) <=> is_pending
            /\ (info.nonce = None) <=> is_pending
            /\ (info.logs_bloom = None) <=> is_pending
            /\ (info.miner = None) <=> is_pending
            /\ (info.total_difficulty = None) <=> is_pending
            /\ is_pending => info.difficulty = 0
            /\ (is_pending /\ info.with_transactions) =>
                    /\ Len(info.transactions) = Len(pending)
                    /\ \A i \in 1 .. Len(info.transactions) :
                            /\ info.transactions[i].hash = pending[i].hash
                            /\ info.transactions[i].block_hash = None
                            /\ info.transactions[i].transaction_index = None
                            /\ info.transactions[i].gas_price = pending[i].max_fee_per_gas
            /\ info.number < get_block.number =>
                    /\ info.hash = Some(block.hash)
                    /\ info.nonce = Some(block.nonce)
                    /\ info.logs_bloom = Some(block.bloom)
                    /\ info.miner = Some(block.coinbase)
                    /\ info.difficulty = block.difficulty
                    /\ info.total_difficulty = Some(block.difficulty)
            /\ info.number <= get_block.number
            /\ ByNumberOrHash => (~is_pending /\ info.hash # None)

\* the pending block, holding two transactions on top of a mined block, is
\* projected with its transactions
C11_Witness ==
    /\ response.op = "eth_getBlockByNumber"
    /\ response.params = <<"pending", "true">>
    /\ BlockInfoReturned
    /\ response.outcome.value[1].number = 2
    /\ response.outcome.value[1].miner = None
    /\ Len(response.outcome.value[1].transactions) = 2
    /\ response.outcome.value[1].transactions[1].block_hash = None

\* a transaction request in flight has returned a TransactionInfo
TransactionInfoReturned ==
    /\ response.op = "eth_getTransactionByHash"
    /\ response.outcome.kind = "return"
    /\ response.outcome.value # None

\* C12: for a transaction found by hash, block_hash and transaction_index
\* are null exactly when the containing block's number equals the head
\* block's number (the transaction then sits in the head block); otherwise
\* block_hash is the hash of the containing block, which is the canonical
\* block of that number, and transaction_index is the transaction's
\* position in that block's transaction sequence.
C12_TransactionPendingFlag ==
    TransactionInfoReturned =>
        LET info == response.outcome.value[1]
            is_pending == info.block_number = get_block.number
        IN  /\ (info.block_hash = None) <=> is_pending
            /\ (info.transaction_index = None) <=> is_pending
            /\ info.hash = Decoded(<<"Hash32">>)[1][1]
            /\ is_pending <=> (\E i \in 1 .. Len(pending) : pending[i].hash = info.hash)
            /\ ~is_pending =>
                    /\ info.block_number \in DOMAIN canonical
                    /\ LET block == get_canonical_block_by_number(info.block_number)
                           index == info.transaction_index[1]
                       IN  /\ info.block_hash = Some(block.hash)
                           /\ index \in 0 .. (Len(block.transactions) - 1)
                           /\ block.transactions[index + 1].hash = info.hash

\* the second transaction of a mined block is found while the head block
\* holds nothing
C12_Witness ==
    /\ TransactionInfoReturned
    /\ response.outcome.value[1].block_number = 1
    /\ response.outcome.value[1].transaction_index = Some(1)
    /\ response.outcome.value[1].block_hash = Some(canonical[1])
    /\ get_block.number = 2
    /\ pending = <<>>

(***************************************************************************)
(* The transaction lookup.                                                 *)
(***************************************************************************)
\* a lookup of a transaction by its hash is in flight
LookupInFlight ==
    response.op \in {"eth_getTransactionByHash", "eth_getTransactionReceipt"}

\* the block holds a transaction with the hash
Holds(block, transaction_hash) ==
    \E i \in 1 .. Len(block.transactions) :
        block.transactions[i].hash = transaction_hash

CanonicalBlocks ==
    {get_canonical_block_by_number(n) : n \in 0 .. (get_block.number - 1)}

\* C15: the lookup by hash returns the first match of the scan: of the head
\* block's transactions in index order, then of the canonical blocks from
\* head.number - 1 down to 0, each in index order, with the containing
\* block and the index in it; it fails, with TransactionNotFound, only when
\* neither the head block nor a canonical block holds the hash.
C15_ScanOrder ==
    LookupInFlight =>
        \A h \in TransactionHashes :
            LET found == _get_transaction_by_hash(h)
            IN  /\ (found.kind = "raise") <=>
                        (\A b \in CanonicalBlocks \cup {get_block} : ~Holds(b, h))
                /\ found.kind = "raise" => found.exc = "TransactionNotFound"
                /\ Returned(found) =>
                        LET block == found.value[1][1]
                            transaction == found.value[1][2]
                            index == found.value[1][3]
                        IN  /\ block \in CanonicalBlocks \cup {get_block}
                            /\ index \in 0 .. (Len(block.transactions) - 1)
                            /\ block.transactions[index + 1] = transaction
                            /\ transaction.hash = h
                            /\ \A j \in 0 .. (index - 1) :
                                    block.transactions[j + 1].hash # h
                            /\ block # get_block =>
                                    /\ ~Holds(get_block, h)
                                    /\ \A b \in CanonicalBlocks :
                                            b.number > block.number => ~Holds(b, h)

\* a transaction of block 1 is found after the head block, which holds
\* another transaction, and block 2 have been scanned
C15_Witness ==
    /\ TransactionInfoReturned
    /\ response.inner.value[1].block_number = 1
    /\ get_block.number = 3
    /\ pending # <<>>
    /\ Returned(_get_transaction_by_hash(response.inner.value[1].hash))
    /\ _get_transaction_by_hash(response.inner.value[1].hash).value[1][3] = 0

\* C16: while a transaction sits in the head block, get_transaction_receipt
\* returns None for its hash, so eth_getTransactionReceipt answers null and
\* no TransactionNotFound is raised; after the next mining step the same
\* hash has a receipt whose block_number is the number the head block had
\* and whose transaction_index is the transaction's position in it.
\* (h and number are bound to their values before the step.)
C16_ReceiptAfterMining ==
    [][\A i \in 1 .. Len(pending) :
          \A h \in {pending[i].hash} :
              /\ (/\ response'.op = "eth_getTransactionReceipt"
                  /\ response'.params = <<unstructure_hash(h)>>) =>
                    /\ get_transaction_receipt(h) = Return(None)
                    /\ response'.inner = Return(None)
                    /\ response'.outcome = Return(None)
              /\ response'.op \in {"mine_block", "advance_time"} =>
                    \E number \in {get_block.number} :
                        /\ get_transaction_receipt(h) = Return(None)
                        /\ Returned(get_transaction_receipt(h)')
                        /\ get_transaction_receipt(h)'.value # None
                        /\ get_transaction_receipt(h)'.value[1].block_number = number
                        /\ get_transaction_receipt(h)'.value[1].transaction_index = i - 1
                        /\ get_transaction_receipt(h)'.value[1].transaction_hash = h]_vars

\* two transactions have just been mined into block 2; the second one has
\* its receipt
C16_Witness ==
    /\ response.op = "mine_block"
    /\ get_block.number = 3
    /\ \E h \in TransactionHashes :
          /\ Returned(get_transaction_receipt(h))
          /\ get_transaction_receipt(h).value # None
          /\ get_transaction_receipt(h).value[1].block_number = 2
          /\ get_transaction_receipt(h).value[1].transaction_index = 1
          /\ Some(get_transaction_receipt(h).value[1].block_hash) = response.outcome.value

(***************************************************************************)
(* Gas.                                                                    *)
(***************************************************************************)
\* a receipt request in flight has returned a TransactionReceipt
ReceiptReturned ==
    /\ response.op = "eth_getTransactionReceipt"
    /\ response.outcome.kind = "return"
    /\ response.outcome.value # None

\* price is the effective gas price of the transaction in the block: for a
\* type-2 transaction the smaller one of max_fee_per_gas and
\* max_priority_fee_per_gas + base_fee_per_gas, for the types 0 and 1 the
\* transaction's gas_price
IsEffectivePrice(price, transaction, block) ==
    LET tipped == transaction.max_priority_fee_per_gas + block.base_fee_per_gas
    IN  /\ transaction.type_id = 2 =>
                /\ price <= transaction.max_fee_per_gas
                /\ price <= tipped
                /\ price \in {transaction.max_fee_per_gas, tipped}
        /\ transaction.type_id \in {0, 1} => Some(price) = transaction.gas_price
        /\ (/\ transaction.type_id = 2
            /\ transaction.max_priority_fee_per_gas = 10
            /\ block.base_fee_per_gas = 50) =>
                /\ transaction.max_fee_per_gas = 100 => price = 60
                /\ transaction.max_fee_per_gas = 40 => price = 40

\* C13: the effective gas price is min(max_fee_per_gas,
\* max_priority_fee_per_gas + base_fee_per_gas) for a type-2 transaction
\* and the gas_price for the types 0 and 1 (100/10/50 gives 60, 40/10/50
\* gives 40); a receipt reports it as effective_gas_price and a
\* TransactionInfo of a mined transaction as gas_price, while the
\* TransactionInfo of a pending transaction has the max_fee_per_gas as
\* gas_price.
C13_EffectiveGasPrice ==
    /\ ReceiptReturned =>
            LET receipt == response.outcome.value[1]
                block == get_canonical_block_by_number(receipt.block_number)
                transaction == block.transactions[receipt.transaction_index + 1]
            IN  /\ receipt.transaction_hash = transaction.hash
                /\ receipt.type = transaction.type_id
                /\ IsEffectivePrice(receipt.effective_gas_price, transaction, block)
    /\ TransactionInfoReturned =>
            LET info == response.outcome.value[1]
            IN  /\ info.block_hash = None =>
                        \E i \in 1 .. Len(pending) :
                            /\ pending[i].hash = info.hash
                            /\ info.type = pending[i].type_id
                            /\ info.gas_price = pending[i].max_fee_per_gas
                /\ info.block_hash # None =>
                        LET block == get_canonical_block_by_number(info.block_number)
                            transaction == block.transactions[info.transaction_index[1] + 1]
                        IN  /\ info.hash = transaction.hash
                            /\ info.type = transaction.type_id
                            /\ IsEffectivePrice(info.gas_price, transaction, block)

\* the receipt of a type-2 transaction with the fees 100 and 10 in a block
\* with the base fee 50 reports 60
C13_Witness ==
    /\ ReceiptReturned
    /\ response.outcome.value[1].type = 2
    /\ response.outcome.value[1].effective_gas_price = 60
    /\ LET receipt == response.outcome.value[1]
           block == get_canonical_block_by_number(receipt.block_number)
           transaction == block.transactions[receipt.transaction_index + 1]
       IN  /\ block.base_fee_per_gas = 50
           /\ transaction.max_fee_per_gas = 100
           /\ transaction.max_priority_fee_per_gas = 10

\* the gas_used values that the receipts of the first n transactions of the
\* block report, added up
RECURSIVE ReportedGas(_, _)
ReportedGas(block, n) ==
    IF n = 0 THEN 0
    ELSE ReportedGas(block, n - 1)
         + get_transaction_receipt(block.transactions[n].hash).value[1].gas_used

\* C14: the gas_used of the receipt of the transaction at index i of a
\* block is the receipt's cumulative gas used minus the cumulative gas used
\* of the receipt at index i - 1 of the block, 0 for i = 0 (the cumulative
\* values 21000, 42000, 84000 give 21000, 21000, 42000): it is the gas the
\* transaction itself has used, and the reported values of a block add up
\* to the cumulative gas used of its last receipt.
C14_GasUsed ==
    ReceiptReturned =>
        LET receipt == response.outcome.value[1]
            block == get_canonical_block_by_number(receipt.block_number)
            receipts == get_receipts(block)
            i == receipt.transaction_index
            before == IF i = 0 THEN 0 ELSE receipts[(i - 1) + 1].gas_used
        IN  /\ receipt.cumulative_gas_used = receipts[i + 1].gas_used
            /\ receipt.gas_used = receipt.cumulative_gas_used - before
            /\ receipt.gas_used = block.transactions[i + 1].execution_gas
            /\ ReportedGas(block, Len(block.transactions))
                    = receipts[Len(receipts)].gas_used
            /\ [k \in 1 .. Len(receipts) |-> receipts[k].gas_used]
                    = <<21000, 42000, 84000>> =>
                        receipt.gas_used = <<21000, 21000, 42000>>[i + 1]

\* the third receipt of a block with the cumulative values 21000, 42000 and
\* 84000 reports 42000
C14_Witness ==
    /\ ReceiptReturned
    /\ response.outcome.value[1].transaction_index = 2
    /\ response.outcome.value[1].cumulative_gas_used = 84000
    /\ response.outcome.value[1].gas_used = 42000
    /\ get_receipts(get_canonical_block_by_number(1))[2].gas_used = 42000

=============================================================================
